---- MODULE Spec2Model ----
(***************************************************************************)
(* Profile bootstrap and session/role resolution of the shipment tracking  *)
(* application: the profiles table and its server-side writers (sign-up    *)
(* trigger, create_user_profile), the client's ensureUserInProfiles, and   *)
(* the AuthProvider handlers that call it; ShipmentMap and the change      *)
(* events of the shipments table that feed its list.                       *)
(*                                                                         *)
(* Every backend call is a suspension point.  A call is answered by the    *)
(* store ("ok" and the store's own verdicts), comes back as an error value *)
(* ("err") or throws ("throw").                                            *)
(***************************************************************************)
EXTENDS Naturals, Integers, Sequences, FiniteSets, Bags, TLC

(* ------------------------------ bounds --------------------------------- *)
NumIds == 2
MaxHandlers == 2
MaxNow == 1
NumShipments == 2
MaxEvents == 2

(* ----------------------- program constants ----------------------------- *)
MaxRetry == 2
\* part_005: if (retryCount < 3), if (error.code === '42501' && retryCount < 2)
MaxRetryNoData == 3
MaxRetryDenied == 2

Ids == 1..NumIds
None == 0

Absent == "<absent>"

(* ------------------------------- state --------------------------------- *)
VARIABLES
  profiles,     \* the profiles table
  registered,   \* ids present in auth.users
  trig,         \* per id: the sign-up trigger, "none", "pending" or "done"
  meta,         \* per id: the metadata and email of the auth.users row
  authUser,     \* the client's current session user (supabase.auth), None if signed out
  handlers,     \* the tasks in flight, a bag: AuthProvider handlers, refreshProfile
                \* calls, utility callers; a task that completes leaves the bag
  user,         \* AuthProvider state
  session,
  profile,
  isLoading,
  mounted,      \* the effect's liveness flag
  soPc,         \* signOut's position
  ensuredTrue,  \* history: ids for which an observed ensureUserInProfiles returned true
  shipmentsTable, \* the shipments table, the rows with status 'tertunda'
  channel,      \* 'shipments-location-updates': the change events not yet delivered
  channelState, \* "none" before ShipmentMap's effect, "joined", "removed"
  mapFetch,     \* fetchShipmentsWithLocation: its position and the answer it holds
  shipments,    \* ShipmentMap state: the displayed list
  mapLoading    \* ShipmentMap state: isLoading

mapVars == <<shipmentsTable, channel, channelState, mapFetch, shipments, mapLoading>>

authVars == <<profiles, registered, trig, meta, authUser, handlers, user, session,
              profile, isLoading, mounted, soPc, ensuredTrue>>

vars == <<authVars, mapVars>>

dbVars == <<profiles, registered, trig, meta>>
reactVars == <<user, session, profile, isLoading, mounted>>

(* ------------------------- identity metadata --------------------------- *)
\* auth.users rows: raw_user_meta_data->>'name', ->>'full_name', and the
\* part of the email before '@'.  Identity 1 signed up through signUp(name),
\* the others carry no metadata name.
DefaultMeta ==
  [u \in Ids |-> IF u = 1
                 THEN [name |-> "Alice", full_name |-> "Alice", local |-> "alice"]
                 ELSE [name |-> Absent, full_name |-> Absent, local |-> "carol"]]

\* every combination of a field being absent, empty or set
Metas ==
  [name : {Absent, "", "Alice"}, full_name : {Absent, "", "Bob Lee"},
   local : {Absent, "", "carol"}]

MetaOf(u) == meta[u]

Falsy(s) == s = Absent \/ s = ""

\* user.user_metadata?.name || user.user_metadata?.full_name ||
\* user.email?.split('@')[0] || 'User'
\* - full_name is looked at before name
UserNameFullFirst(m) ==
  IF ~Falsy(m.full_name) THEN m.full_name
  ELSE IF ~Falsy(m.name) THEN m.name
  ELSE IF ~Falsy(m.local) THEN m.local
  ELSE "User"
UserName(m) ==
  IF ~Falsy(m.name) THEN m.name
  ELSE IF ~Falsy(m.full_name) THEN m.full_name
  ELSE IF ~Falsy(m.local) THEN m.local
  ELSE "User"

\* COALESCE(meta->>'name', meta->>'full_name', split_part(email,'@',1), 'User')
TriggerName(m) ==
  IF m.name # Absent THEN m.name
  ELSE IF m.full_name # Absent THEN m.full_name
  ELSE IF m.local # Absent THEN m.local
  ELSE "User"

(* --------------------------- profiles table ---------------------------- *)
\* The table is kept per id as the list of rows carrying that id, so that a
\* duplicate is representable; the order of rows with different ids is of no
\* consequence to any query of the program.
NullProfile == [id |-> None, name |-> "", role |-> "", created_at |-> 0]

Row(id, name, role, at) == [id |-> id, name |-> name, role |-> role, created_at |-> at]

\* NOW(): later than every timestamp stored so far, up to the clock's bound
Now(tbl) ==
  LET S == UNION {{tbl[u][i].created_at : i \in DOMAIN tbl[u]} : u \in Ids}
      m == IF S = {} THEN 0 ELSE CHOOSE x \in S : \A y \in S : y <= x
  IN IF m < MaxNow THEN m + 1 ELSE MaxNow

\* id uuid PRIMARY KEY: a second row with the same id is a unique_violation
PkViolationFree(tbl, id) == FALSE
PkViolation(tbl, id) == tbl[id] # <<>>

IsAdminId(tbl, req) ==
  req # None /\ \E i \in DOMAIN tbl[req] : tbl[req][i].role = "admin"

\* SELECT policies: own row for authenticated, every row for admins and anon
CanSelect(tbl, req, id) == req = None \/ req = id \/ IsAdminId(tbl, req)

\* UPDATE policies: USING (auth.uid() = id), or an admin
CanUpdate(tbl, req, id) == req # None /\ (req = id \/ IsAdminId(tbl, req))

\* .from('profiles').update({ role }).eq('id', id) as req: the rows the
\* policies let req see are changed, the others are left without an error
UpdateRole(tbl, req, id, role) ==
  IF CanUpdate(tbl, req, id)
  THEN [tbl EXCEPT ![id] = [i \in DOMAIN @ |-> [@[i] EXCEPT !.role = role]]]
  ELSE tbl

\* INSERT policies: WITH CHECK (auth.uid() = id), or an admin; anon has SELECT only
CanInsert(tbl, req, id) == req # None /\ (req = id \/ IsAdminId(tbl, req))

\* .from('profiles').select(..).eq('id', id).maybeSingle() as seen by req:
\* the row, no row, or an error when more than one row comes back
MaybeSingle(tbl, req, id) ==
  LET vis == IF id \in Ids /\ CanSelect(tbl, req, id) THEN tbl[id] ELSE <<>>
  IN IF vis = <<>> THEN [out |-> "none", data |-> NullProfile]
     ELSE IF Len(vis) = 1 THEN [out |-> "found", data |-> vis[1]]
     ELSE [out |-> "err", data |-> NullProfile]

\* What a lookup made inside ensureUserInProfiles comes back with.  A row that
\* the policies hide reaches the client as no row; the outcome is kept apart
\* ("hidden") for the record of the call only.
LookupOut(tbl, req, id) ==
  IF MaybeSingle(tbl, req, id).out = "none" /\ id \in Ids /\ tbl[id] # <<>>
  THEN "hidden" ELSE MaybeSingle(tbl, req, id).out

\* .from('profiles').insert({id, name, role: 'user'}) as req
InsertOutcome(tbl, req, id) ==
  IF ~CanInsert(tbl, req, id) THEN "denied"
  ELSE IF PkViolation(tbl, id) THEN "conflict"
  ELSE "created"

\* - the fallback insert with createAdminUser's role
DirectInsertAsAdmin(tbl, req, id, name) ==
  IF InsertOutcome(tbl, req, id) = "created"
  THEN [tbl EXCEPT ![id] = Append(@, Row(id, name, "admin", Now(tbl)))]
  ELSE tbl
DirectInsert(tbl, req, id, name) ==
  IF InsertOutcome(tbl, req, id) = "created"
  THEN [tbl EXCEPT ![id] = Append(@, Row(id, name, "user", Now(tbl)))]
  ELSE tbl

\* create_user_profile(user_id, user_name, user_role): SECURITY DEFINER upsert
FinalRole(user_role) == IF user_role = "admin" THEN "admin" ELSE "user"

FinalName(user_name) == IF user_name = Absent THEN "User" ELSE user_name

\* created_at under ON CONFLICT DO UPDATE: not among the columns set; the later
\* version of the function sets it to COALESCE(profiles.created_at, NOW())
NoTime == 0 - 1

\* - the upsert stamps the row anew
UpsertCreatedAtRestamp(old, now) == now
UpsertCreatedAt(old, now) == IF old = NoTime THEN now ELSE old

\* - the INSERT without its ON CONFLICT clause and without the key
CreateUserProfileNoConflict(tbl, id, user_name, user_role) ==
  [tbl EXCEPT ![id] =
     Append(@, Row(id, FinalName(user_name), FinalRole(user_role), Now(tbl)))]
CreateUserProfile(tbl, id, user_name, user_role) ==
  IF PkViolation(tbl, id)
  THEN [tbl EXCEPT ![id] = [i \in DOMAIN @ |->
          [@[i] EXCEPT !.name = FinalName(user_name), !.role = FinalRole(user_role),
                       !.created_at = UpsertCreatedAt(@, Now(tbl))]]]
  ELSE [tbl EXCEPT ![id] =
          Append(@, Row(id, FinalName(user_name), FinalRole(user_role), Now(tbl)))]

\* handle_new_user: INSERT ... ; EXCEPTION WHEN unique_violation -> RETURN NEW
HandleNewUser(tbl, id) ==
  IF PkViolation(tbl, id) THEN tbl
  ELSE [tbl EXCEPT ![id] = Append(@, Row(id, TriggerName(MetaOf(id)), "user", Now(tbl)))]

\* how the trigger's INSERT ends: it inserted, hit the primary key, or failed
\* otherwise
TriggerOutcome(tbl, id, out) ==
  IF out = "others" THEN "others"
  ELSE IF PkViolation(tbl, id) THEN "unique_violation"
  ELSE "inserted"

\* what handle_new_user ends with: RETURN NEW after the insert and in both
\* exception handlers; an exception that left the function ("raise") would
\* abort the INSERT into auth.users
\* - the function without its handler for the key conflict
HandleNewUserReturnConflictRaised(outcome) ==
  IF outcome = "unique_violation" THEN "raise" ELSE "NEW"
HandleNewUserReturn(outcome) ==
  IF outcome = "inserted" THEN "NEW"
  ELSE IF outcome = "unique_violation" THEN "NEW"
  ELSE "NEW"

(* ------------------------ ensureUserInProfiles ------------------------- *)
\* One invocation: the awaited call it is suspended on, the user it resolved,
\* what it returned, and for an observed invocation the calls answered so far
\* with their outcomes and whether an earlier invocation for the same user
\* had already returned true when it started.
IdleFrame ==
  [pc |-> "none", uid |-> None, tr |-> <<>>, res |-> FALSE, raised |-> FALSE,
   after |-> FALSE]

NewFrame == [IdleFrame EXCEPT !.pc = "getUser"]

Ret(b) == [pc |-> "done", res |-> b, raised |-> FALSE]
Go(step) == [pc |-> step, res |-> FALSE, raised |-> FALSE]

\* The control flow of ensureUserInProfiles after the awaited call `step`
\* came back with outcome `out`; a throw lands in the outer catch.
Chain(step, out) ==
  IF out = "throw" THEN Ret(FALSE)
  ELSE IF step = "getUser" THEN (IF out = "user" THEN Go("select") ELSE Ret(FALSE))
  ELSE IF step = "select" THEN (IF out = "found" THEN Ret(TRUE) ELSE Go("rpc"))
  ELSE IF step = "rpc" THEN (IF out = "ok" THEN Ret(TRUE) ELSE Go("insert"))
  ELSE IF step = "insert" THEN (IF out = "created" THEN Ret(TRUE) ELSE Go("final"))
  ELSE (IF out = "found" THEN Ret(TRUE) ELSE Ret(FALSE))

\* Variants of the chain with one decision changed.
\* - a failed insert gives up without the final existence check
EnsureStepNoRecheck(step, out) ==
  IF step = "insert" /\ out \notin {"created", "throw"} THEN Ret(FALSE) ELSE Chain(step, out)
\* - a failed insert is not looked at
EnsureStepInsertIgnored(step, out) ==
  IF step = "insert" /\ out # "throw" THEN Ret(TRUE) ELSE Chain(step, out)
\* - the existence check does not return early
EnsureStepAlwaysUpsert(step, out) ==
  IF step = "select" /\ out = "found" THEN Go("rpc") ELSE Chain(step, out)
\* - the missing user is not checked
EnsureStepNoUserCheck(step, out) ==
  IF step = "getUser" /\ out = "nouser" THEN Go("select") ELSE Chain(step, out)
\* - no outer catch
EnsureStepRethrow(step, out) ==
  IF out = "throw" THEN [pc |-> "done", res |-> FALSE, raised |-> TRUE] ELSE Chain(step, out)
\* - a failed privileged call is final
EnsureStepRpcFatal(step, out) ==
  IF step = "rpc" /\ out = "err" THEN Ret(FALSE) ELSE Chain(step, out)

EnsureStep(step, out) == Chain(step, out)

\* The revision of ensureUserInProfiles in part_001: the privileged call has
\* a try/catch of its own, the direct insert asks for the row back, and the
\* existence check is repeated after a permission error (42501) only.
EnsureStepInsertSelect(step, out) ==
  IF step = "rpc" /\ out = "throw" THEN Go("insert")
  ELSE IF step = "insert" /\ out \in {"conflict", "err"} THEN Ret(FALSE)
  ELSE Chain(step, out)

Revisions == {"part_000", "part_001", "part_005"}

StepOf(rev, step, out) ==
  IF rev = "part_001" THEN EnsureStepInsertSelect(step, out) ELSE EnsureStep(step, out)

Advance(rev, f, step, out, observed) ==
  LET n == StepOf(rev, step, out)
  IN [f EXCEPT !.pc = n.pc, !.res = n.res, !.raised = n.raised,
               !.uid = IF n.pc = "done" /\ ~observed THEN None ELSE @,
               !.tr = IF observed THEN Append(@, <<step, out>>) ELSE @]

Faults == {"err", "throw"}

(* ------------------------------ handlers -------------------------------- *)
BlankHandler ==
  [kind |-> "auth", sess |-> None, pc |-> "getSession", retry |-> 0, resp |-> "",
   data |-> NullProfile, f |-> IdleFrame, rev |-> "part_000",
   lookups |-> 0, ensures |-> 0]

InitHandler == BlankHandler

EventHandler(u) ==
  [BlankHandler EXCEPT !.kind = "auth", !.sess = u, !.pc = "ensure", !.f = NewFrame]

RefreshHandler(u) ==
  [BlankHandler EXCEPT !.kind = "refresh", !.sess = u, !.pc = "fetchSel"]

CallHandler == [BlankHandler EXCEPT !.kind = "call", !.pc = "ensure", !.f = NewFrame]

\* a caller of the part_001 revision
CallHandlerInsertSelect == [CallHandler EXCEPT !.rev = "part_001"]

Active == BagToSet(handlers)
HasFree == BagCardinality(handlers) < MaxHandlers
Spawn(g) == handlers' = handlers (+) SetToBag({g})
Drop(h) == handlers' = handlers (-) SetToBag({h})
Swap(h, g) == handlers' = (handlers (-) SetToBag({h})) (+) SetToBag({g})

isAdmin == profile.role = "admin"

Count(id) == Len(profiles[id])

(* ------------------------- ShipmentMap, data --------------------------- *)
ShipmentIds == 1..NumShipments

\* current_lat / current_lng: a number, or null when no location was reported
NullCoord == 0 - 1

\* the positions a row takes: none, one on the equator, two others
Locations == {<<NullCoord, NullCoord>>, <<0, 1>>, <<1, 1>>, <<2, 1>>}

ShipmentRow(id, loc) == [id |-> id, current_lat |-> loc[1], current_lng |-> loc[2]]
NoShipment == ShipmentRow(None, <<NullCoord, NullCoord>>)

\* postgres_changes payload: eventType, new (the row after), old (the key before)
Payload(type, new, oldId) == [eventType |-> type, new |-> new, old |-> [id |-> oldId]]

\* a JavaScript condition on a coordinate: null and 0 do not pass
Truthy(c) == c # NullCoord /\ c # 0

\* mapSupabaseShipment: the application's shipment for a row, under the row's id
MapSupabaseShipment(row) == [id |-> row.id]

\* {...mapSupabaseShipment(row), current_lat: row.current_lat, current_lng: row.current_lng}
ShipmentWithLocation(row) ==
  [id |-> MapSupabaseShipment(row).id,
   current_lat |-> row.current_lat, current_lng |-> row.current_lng]

\* prev.findIndex(s => s.id === id), 0 for -1
FindIndex(prev, id) ==
  IF \E i \in DOMAIN prev : prev[i].id = id
  THEN CHOOSE i \in DOMAIN prev :
         prev[i].id = id /\ \A j \in 1..(i - 1) : prev[j].id # id
  ELSE 0

\* the updater of the UPDATE branch: replace at the index, or append
Upsert(prev, s) ==
  IF FindIndex(prev, s.id) >= 1
  THEN [prev EXCEPT ![FindIndex(prev, s.id)] = s]
  ELSE Append(prev, s)

\* prev.filter(s => s.id !== id)
Without(prev, id) == SelectSeq(prev, LAMBDA s : s.id # id)

\* the channel callback: the list after the event
OnPostgresChanges(prev, payload) ==
  IF payload.eventType = "UPDATE"
  THEN IF Truthy(payload.new.current_lat) /\ Truthy(payload.new.current_lng)
       THEN Upsert(prev, ShipmentWithLocation(payload.new))
       ELSE prev
  ELSE IF payload.eventType = "DELETE"
  THEN Without(prev, payload.old.id)
  ELSE prev

\* select('*').eq('status', 'tertunda').not('current_lat', 'is', null)
\*   .not('current_lng', 'is', null): the rows, by id
RECURSIVE LocatedRows(_, _)
LocatedRows(tbl, n) ==
  IF n = 0 THEN <<>>
  ELSE LET rest == LocatedRows(tbl, n - 1)
       IN IF /\ tbl[n] # NoShipment
             /\ tbl[n].current_lat # NullCoord /\ tbl[n].current_lng # NullCoord
          THEN Append(rest, tbl[n]) ELSE rest

\* data.filter(s => s.current_lat && s.current_lng).map(...)
RECURSIVE ShipmentsWithLocation(_)
ShipmentsWithLocation(data) ==
  IF data = <<>> THEN <<>>
  ELSE LET r == Head(data)
       IN IF Truthy(r.current_lat) /\ Truthy(r.current_lng)
          THEN <<ShipmentWithLocation(r)>> \o ShipmentsWithLocation(Tail(data))
          ELSE ShipmentsWithLocation(Tail(data))

MapFetchIdle == [pc |-> "idle", data |-> <<>>]

\* no ShipmentMap on the page, no shipment on its way
NoMap ==
  /\ shipmentsTable = [i \in ShipmentIds |-> NoShipment]
  /\ channel = <<>> /\ channelState = "none"
  /\ mapFetch = MapFetchIdle
  /\ shipments = <<>> /\ mapLoading = TRUE

\* The store holds the identities that signed up earlier, each with the row
\* its trigger made, or none if the trigger failed; an administrator may have
\* been promoted since.
InitStore ==
  /\ meta = DefaultMeta
  /\ registered \in SUBSET {1}
  /\ \E S \in SUBSET registered : \E r \in {"user", "admin"} :
       profiles = [u \in Ids |-> IF u \in S
                                 THEN <<Row(u, TriggerName(MetaOf(u)), r, 0)>>
                                 ELSE <<>>]
  /\ trig = [u \in Ids |-> IF u \in registered THEN "done" ELSE "none"]
  /\ authUser \in {None} \cup registered
  /\ ensuredTrue = {}

\* The provider has just mounted: isLoading true, getSession pending.
Init ==
  /\ InitStore
  /\ handlers = SetToBag({InitHandler})
  /\ user = None /\ session = None /\ profile = NullProfile
  /\ isLoading = TRUE /\ mounted = TRUE
  /\ soPc = "idle"
  /\ NoMap

(* ------------------------ identity provider ---------------------------- *)
\* supabase.auth.signUp: a row in auth.users; AFTER INSERT trigger scheduled
SignUp(u) ==
  /\ u \notin registered
  /\ registered' = registered \cup {u}
  /\ trig' = [trig EXCEPT ![u] = "pending"]
  /\ UNCHANGED <<profiles, meta, authUser, handlers, soPc, ensuredTrue, mapVars>>
  /\ UNCHANGED reactVars

\* handle_new_user runs: its INSERT, or a failure swallowed by WHEN OTHERS
TriggerRun(u) ==
  /\ trig[u] = "pending"
  /\ \E out \in {"run", "others"} :
       LET ret == HandleNewUserReturn(TriggerOutcome(profiles, u, out))
       IN /\ profiles' = IF out = "run" THEN HandleNewUser(profiles, u) ELSE profiles
          /\ trig' = [trig EXCEPT ![u] = IF ret = "NEW" THEN "done" ELSE "none"]
          /\ registered' = IF ret = "NEW" THEN registered ELSE registered \ {u}
  /\ UNCHANGED <<meta, authUser, handlers, soPc, ensuredTrue, mapVars>>
  /\ UNCHANGED reactVars

\* onAuthStateChange callback, synchronous prefix, for a session of u
DeliverSession(u) ==
  /\ session' = u /\ user' = u
  /\ Spawn(EventHandler(u))
  /\ UNCHANGED <<profile, isLoading, mounted>>

\* signInWithPassword accepted: the client holds u's session, SIGNED_IN is emitted
SignIn(u) ==
  /\ u \in registered /\ soPc = "idle" /\ authUser # u
  /\ authUser' = u
  /\ IF mounted
     THEN HasFree /\ DeliverSession(u)
     ELSE UNCHANGED handlers /\ UNCHANGED reactVars
  /\ UNCHANGED <<soPc, ensuredTrue, mapVars>> /\ UNCHANGED dbVars

\* INITIAL_SESSION / TOKEN_REFRESHED: an event carrying the current session
AuthEvent ==
  /\ mounted /\ authUser # None /\ HasFree /\ soPc = "idle"
  /\ DeliverSession(authUser)
  /\ UNCHANGED <<authUser, soPc, ensuredTrue, mapVars>> /\ UNCHANGED dbVars

\* logoutUser: supabase.auth.signOut() outside the provider
LogoutUser ==
  /\ authUser # None
  /\ authUser' = None
  /\ UNCHANGED <<handlers, soPc, ensuredTrue, mapVars>> /\ UNCHANGED dbVars
  /\ UNCHANGED reactVars

(* -------------------- ensureUserInProfiles, by await ------------------- *)
Running(h, step) == h.pc \in {"ensure", "fetchEnsure"} /\ h.f.pc = step

Observed(h) == h.kind \in {"call", "register"}

Returned(h, f) ==
  /\ Swap(h, [h EXCEPT !.f = f])
  /\ ensuredTrue' = IF Observed(h) /\ f.pc = "done" /\ f.res
                    THEN ensuredTrue \cup {f.uid} ELSE ensuredTrue
  /\ UNCHANGED mapVars

\* const { data: { user } } = await supabase.auth.getUser(); if (!user) return false
EnsureGetUser(h) ==
  /\ Running(h, "getUser")
  /\ \E out \in {IF authUser = None THEN "nouser" ELSE "user"} \cup Faults :
       LET f0 == h.f
           f1 == IF out = "user"
                 THEN [f0 EXCEPT !.uid = authUser,
                                 !.after = Observed(h) /\ authUser \in ensuredTrue]
                 ELSE f0
       IN Returned(h, Advance(h.rev, f1, "getUser", out, Observed(h)))
  /\ UNCHANGED <<authUser, soPc>> /\ UNCHANGED dbVars /\ UNCHANGED reactVars

\* existence check: select('*').eq('id', user.id).maybeSingle()
EnsureSelect(h) ==
  /\ Running(h, "select")
  /\ \E out \in {LookupOut(profiles, authUser, h.f.uid)} \cup Faults :
       Returned(h, Advance(h.rev, h.f, "select", out, Observed(h)))
  /\ UNCHANGED <<authUser, soPc>> /\ UNCHANGED dbVars /\ UNCHANGED reactVars

\* supabase.rpc('create_user_profile', {user_id, user_name: userName, user_role: 'user'})
EnsureRpc(h) ==
  /\ Running(h, "rpc")
  /\ \E out \in {"ok"} \cup Faults :
       LET f0 == h.f
       IN /\ Returned(h, Advance(h.rev, f0, "rpc", out, Observed(h)))
          /\ profiles' = IF out = "ok"
                         THEN CreateUserProfile(profiles, f0.uid,
                                                UserName(MetaOf(f0.uid)), "user")
                         ELSE profiles
  /\ UNCHANGED <<registered, trig, meta, authUser, soPc>> /\ UNCHANGED reactVars

\* fallback: from('profiles').insert({id, name: userName, role: 'user'})
EnsureInsert(h) ==
  /\ Running(h, "insert")
  /\ \E out \in {InsertOutcome(profiles, authUser, h.f.uid)} \cup Faults :
       LET f0 == h.f
       IN /\ Returned(h, Advance(h.rev, f0, "insert", out, Observed(h)))
          /\ profiles' = IF out \in Faults THEN profiles
                         ELSE DirectInsert(profiles, authUser, f0.uid,
                                           UserName(MetaOf(f0.uid)))
  /\ UNCHANGED <<registered, trig, meta, authUser, soPc>> /\ UNCHANGED reactVars

\* const { data: finalCheck } = ...maybeSingle(); the error is not looked at
EnsureFinal(h) ==
  /\ Running(h, "final")
  /\ \E out \in {LookupOut(profiles, authUser, h.f.uid)} \cup Faults :
       Returned(h, Advance(h.rev, h.f, "final", out, Observed(h)))
  /\ UNCHANGED <<authUser, soPc>> /\ UNCHANGED dbVars /\ UNCHANGED reactVars

(* ----------------------- utility callers (boot) ------------------------ *)
\* loginUser / registerUser reach `await ensureUserInProfiles()`
CallEnsure ==
  /\ \A h \in Active : h.kind # "call"
  /\ Spawn(CallHandler)
  /\ UNCHANGED <<authUser, soPc, ensuredTrue, mapVars>> /\ UNCHANGED dbVars
  /\ UNCHANGED reactVars

\* a caller reaches `await ensureUserInProfiles()` of the part_001 revision
CallEnsureInsertSelect ==
  /\ \A h \in Active : h.kind # "call"
  /\ Spawn(CallHandlerInsertSelect)
  /\ UNCHANGED <<authUser, soPc, ensuredTrue, mapVars>> /\ UNCHANGED dbVars
  /\ UNCHANGED reactVars

\* the awaited call has returned and its caller goes on
CallReturn(h) ==
  /\ h.kind = "call" /\ h.f.pc = "done"
  /\ Drop(h)
  /\ UNCHANGED <<authUser, soPc, ensuredTrue, mapVars>> /\ UNCHANGED dbVars
  /\ UNCHANGED reactVars

(* ------------------------------ loginUser ------------------------------ *)
\* what signInWithPassword comes back with: the user, an error whose message
\* is one of those the function looks for or another, or an exception
LoginErrors ==
  {"Invalid login credentials", "Email not confirmed", "Too many requests", "other"}

LoginOutcomes(u) ==
  (IF u \in registered THEN {"ok"} ELSE {}) \cup LoginErrors \cup {"throw"}

\* the value loginUser returns
LoginResult(out) ==
  IF out = "ok" THEN [success |-> TRUE, message |-> "Login berhasil"]
  ELSE IF out = "throw" THEN [success |-> FALSE, message |-> "Gagal login"]
  ELSE [success |-> FALSE,
        message |-> IF out = "Invalid login credentials"
                      THEN "Email atau password tidak valid"
                    ELSE IF out = "Email not confirmed"
                      THEN "Email belum dikonfirmasi"
                    ELSE IF out = "Too many requests"
                      THEN "Terlalu banyak percobaan login"
                    ELSE "Gagal login"]

\* where loginUser goes after signInWithPassword: to the bootstrap when it
\* got a user, to its return otherwise
\* - the bootstrap is called whatever came back
LoginNextAlwaysEnsure(out) == "ensure"
LoginNext(out) == IF out = "ok" THEN "ensure" ELSE "returned"

LoginHandler(u) == [BlankHandler EXCEPT !.kind = "login", !.sess = u, !.pc = "signIn"]

\* loginUser(email, password) is called with the email of u
LoginStart(u) ==
  /\ \A h \in Active : h.kind # "login"
  /\ HasFree
  /\ Spawn(LoginHandler(u))
  /\ UNCHANGED <<authUser, soPc, ensuredTrue, mapVars>> /\ UNCHANGED dbVars
  /\ UNCHANGED reactVars

\* await supabase.auth.signInWithPassword({email, password}) comes back
LoginAnswer(h) ==
  /\ h.kind = "login" /\ h.pc = "signIn"
  /\ \E out \in LoginOutcomes(h.sess) :
       /\ authUser' = IF out = "ok" THEN h.sess ELSE authUser
       /\ Swap(h, [h EXCEPT !.resp = out, !.pc = LoginNext(out),
                            !.f = IF LoginNext(out) = "ensure" THEN NewFrame ELSE @])
  /\ UNCHANGED <<soPc, ensuredTrue, mapVars>> /\ UNCHANGED dbVars /\ UNCHANGED reactVars

\* await ensureUserInProfiles() came back; its result is not looked at
LoginReturn(h) ==
  /\ h.kind = "login" /\ h.pc = "ensure" /\ h.f.pc = "done"
  /\ Swap(h, [h EXCEPT !.pc = "returned"])
  /\ UNCHANGED <<authUser, soPc, ensuredTrue, mapVars>> /\ UNCHANGED dbVars
  /\ UNCHANGED reactVars

\* the caller has taken the result
LoginDone(h) ==
  /\ h.kind = "login" /\ h.pc = "returned"
  /\ Drop(h)
  /\ UNCHANGED <<authUser, soPc, ensuredTrue, mapVars>> /\ UNCHANGED dbVars
  /\ UNCHANGED reactVars

(* ----------------------------- registerUser ---------------------------- *)
RegName == "Dina"

RegisterHandler(u) ==
  [BlankHandler EXCEPT !.kind = "register", !.sess = u, !.pc = "ensure", !.f = NewFrame]

\* signUp({email, password, options: {data: {name, full_name: name}}}) made
\* the identity; with it the client may or may not have got a session (email
\* confirmation).  After its wait the function calls ensureUserInProfiles.
RegisterUser(u) ==
  /\ u \notin registered /\ HasFree
  /\ registered' = registered \cup {u}
  /\ trig' = [trig EXCEPT ![u] = "pending"]
  /\ meta' = [meta EXCEPT ![u] = [@ EXCEPT !.name = RegName, !.full_name = RegName]]
  /\ authUser' \in {authUser, u}
  /\ Spawn(RegisterHandler(u))
  /\ UNCHANGED <<profiles, soPc, ensuredTrue, mapVars>> /\ UNCHANGED reactVars

\* ensureUserInProfiles came back; registerUser returns success either way
RegisterReturn(h) ==
  /\ h.kind = "register" /\ h.pc = "ensure" /\ h.f.pc = "done"
  /\ Swap(h, [h EXCEPT !.pc = "returned"])
  /\ UNCHANGED <<authUser, soPc, ensuredTrue, mapVars>> /\ UNCHANGED dbVars
  /\ UNCHANGED reactVars

(* --------------------------- createAdminUser --------------------------- *)
AdminName == "Dina"

AdminHandler(u) == [BlankHandler EXCEPT !.kind = "admin", !.sess = u, !.pc = "rpc"]

\* signUp({email, password, options: {data: {name, full_name: name}}}) made
\* the identity; the function waits before it calls create_user_profile
CreateAdminStart(u) ==
  /\ u \notin registered /\ HasFree
  /\ \A h \in Active : h.kind # "admin"
  /\ registered' = registered \cup {u}
  /\ trig' = [trig EXCEPT ![u] = "pending"]
  /\ meta' = [meta EXCEPT ![u] = [@ EXCEPT !.name = AdminName, !.full_name = AdminName]]
  /\ Spawn(AdminHandler(u))
  /\ UNCHANGED <<profiles, authUser, soPc, ensuredTrue, mapVars>> /\ UNCHANGED reactVars

\* where createAdminUser goes after the call: on rpcError the fallback, on an
\* exception the catch block, else the success return
AdminAfterRpc(out) ==
  IF out = "err" THEN [pc |-> "update", resp |-> ""]
  ELSE IF out = "throw" THEN [pc |-> "returned", resp |-> "failure"]
  ELSE [pc |-> "returned", resp |-> "success"]

\* the result after the fallback update: failure on updateError or an exception
AdminAfterUpdate(out, changed) == IF out = "ok" THEN "success" ELSE "failure"

\* rpc('create_user_profile', {user_id, user_name: name, user_role: 'admin'})
CreateAdminRpc(h) ==
  /\ h.kind = "admin" /\ h.pc = "rpc"
  /\ \E out \in {"ok"} \cup Faults :
       /\ profiles' = IF out = "ok"
                      THEN CreateUserProfile(profiles, h.sess, AdminName, "admin")
                      ELSE profiles
       /\ Swap(h, [h EXCEPT !.pc = AdminAfterRpc(out).pc, !.resp = AdminAfterRpc(out).resp])
  /\ UNCHANGED <<registered, trig, meta, authUser, soPc, ensuredTrue, mapVars>>
  /\ UNCHANGED reactVars

\* fallback: update({ role: 'admin' }).eq('id', data.user.id)
CreateAdminUpdate(h) ==
  /\ h.kind = "admin" /\ h.pc = "update"
  /\ \E out \in {"ok"} \cup Faults :
       /\ profiles' = IF out = "ok"
                      THEN UpdateRole(profiles, authUser, h.sess, "admin")
                      ELSE profiles
       /\ Swap(h, [h EXCEPT !.pc = "returned",
                            !.resp = AdminAfterUpdate(out,
                                       /\ CanUpdate(profiles, authUser, h.sess)
                                       /\ Count(h.sess) >= 1)])
  /\ UNCHANGED <<registered, trig, meta, authUser, soPc, ensuredTrue, mapVars>>
  /\ UNCHANGED reactVars

\* the caller has taken createAdminUser's result
CreateAdminDone(h) ==
  /\ h.kind = "admin" /\ h.pc = "returned"
  /\ Drop(h)
  /\ UNCHANGED <<authUser, soPc, ensuredTrue, mapVars>> /\ UNCHANGED dbVars
  /\ UNCHANGED reactVars

(* --------------------------- AuthProvider ------------------------------ *)
\* The tail of a handler: setProfile under the liveness flag, then
\* setIsLoading(false); refreshProfile sets the profile unguarded.
\* - the tail clears isLoading only when a profile came back
FinishLoadingOnSuccess(h, applies, data) ==
  /\ Drop(h)
  /\ profile' = IF applies /\ (h.kind = "refresh" \/ mounted) THEN data ELSE profile
  /\ isLoading' = IF h.kind # "refresh" /\ mounted /\ data # NullProfile
                  THEN FALSE ELSE isLoading
  /\ UNCHANGED <<user, session, mounted>>
\* - the tail without the liveness flag
FinishUnguarded(h, applies, data) ==
  /\ Drop(h)
  /\ profile' = IF applies THEN data ELSE profile
  /\ isLoading' = IF h.kind # "refresh" THEN FALSE ELSE isLoading
  /\ UNCHANGED <<user, session, mounted>>
Finish(h, applies, data) ==
  LET k == h.kind
  IN /\ Drop(h)
     /\ profile' = IF applies /\ (k = "refresh" \/ mounted) THEN data ELSE profile
     /\ isLoading' = IF k # "refresh" /\ mounted THEN FALSE ELSE isLoading
     /\ UNCHANGED <<user, session, mounted>>

\* supabase.auth.getSession().then(...)
InitResume(h) ==
  /\ h.pc = "getSession"
  /\ IF ~mounted
     THEN /\ Drop(h)
          /\ UNCHANGED reactVars
     ELSE /\ session' = authUser /\ user' = authUser
          /\ IF authUser # None
             THEN /\ Swap(h, EventHandler(authUser))
                  /\ UNCHANGED isLoading
             ELSE /\ Drop(h)
                  /\ isLoading' = FALSE
          /\ UNCHANGED <<profile, mounted>>
  /\ UNCHANGED <<authUser, soPc, ensuredTrue, mapVars>> /\ UNCHANGED dbVars

\* await ensureUserInProfiles() returned; fetchUserProfile(session.user.id) starts
HandlerAfterEnsure(h) ==
  /\ h.kind = "auth" /\ h.pc = "ensure" /\ h.f.pc = "done"
  /\ IF h.f.raised
     THEN Finish(h, FALSE, NullProfile)
     ELSE /\ Swap(h, [h EXCEPT !.pc = "fetchSel", !.retry = 0, !.f = IdleFrame,
                                !.lookups = 0, !.ensures = 0])
          /\ UNCHANGED reactVars
  /\ UNCHANGED <<authUser, soPc, ensuredTrue, mapVars>> /\ UNCHANGED dbVars

\* the errors of the lookup that fetchUserProfile tells apart: the part_005
\* revision looks for the permission error 42501
FetchErrors(rev) == IF rev = "part_005" THEN {"denied"} ELSE {}

\* what fetchUserProfile does with the lookup's answer at retryCount `retry`:
\* return the row, call ensureUserInProfiles, or return null
FetchNext(rev, resp, retry) ==
  IF resp = "found" THEN "return"
  ELSE IF rev = "part_005"
  THEN IF resp = "none" /\ retry < MaxRetryNoData THEN "ensure"
       ELSE IF resp = "denied" /\ retry < MaxRetryDenied THEN "ensure"
       ELSE "null"
  ELSE IF resp = "none" THEN "ensure" ELSE "null"

\* whether it fetches again after ensureUserInProfiles came back with `created`
\* - the retry without its bound
FetchRetryUnbounded(rev, resp, retry, created) == created
FetchRetry(rev, resp, retry, created) ==
  IF rev = "part_005" THEN (resp = "denied" \/ created)
  ELSE created /\ retry < MaxRetry

\* fetchUserProfile: the store answers select('id, name, role, created_at')
FetchExec(h) ==
  /\ h.pc = "fetchSel"
  /\ \E out \in {MaybeSingle(profiles, authUser, h.sess).out} \cup Faults
                \cup FetchErrors(h.rev) :
       Swap(h, [h EXCEPT
         !.pc = "fetchResp", !.resp = out, !.lookups = @ + 1,
         !.data = IF out = "found"
                  THEN MaybeSingle(profiles, authUser, h.sess).data
                  ELSE NullProfile])
  /\ UNCHANGED <<authUser, soPc, ensuredTrue, mapVars>> /\ UNCHANGED dbVars
  /\ UNCHANGED reactVars

\* fetchUserProfile resumes with the answer
FetchResume(h) ==
  /\ h.pc = "fetchResp"
  /\ IF FetchNext(h.rev, h.resp, h.retry) = "return" THEN Finish(h, TRUE, h.data)
     ELSE IF FetchNext(h.rev, h.resp, h.retry) = "ensure"
     THEN /\ Swap(h, [h EXCEPT !.pc = "fetchEnsure", !.f = NewFrame,
                                !.ensures = @ + 1])
          /\ UNCHANGED reactVars
     ELSE Finish(h, TRUE, NullProfile)
  /\ UNCHANGED <<authUser, soPc, ensuredTrue, mapVars>> /\ UNCHANGED dbVars

\* const created = await ensureUserInProfiles(); if (created && retryCount < 2) retry
FetchAfterEnsure(h) ==
  /\ h.pc = "fetchEnsure" /\ h.f.pc = "done"
  /\ IF ~h.f.raised /\ FetchRetry(h.rev, h.resp, h.retry, h.f.res)
     THEN /\ Swap(h, [h EXCEPT !.pc = "fetchSel", !.retry = @ + 1, !.f = IdleFrame,
                                !.resp = ""])
          /\ UNCHANGED reactVars
     ELSE Finish(h, TRUE, NullProfile)
  /\ UNCHANGED <<authUser, soPc, ensuredTrue, mapVars>> /\ UNCHANGED dbVars

\* refreshProfile: if (user) setProfile(await fetchUserProfile(user.id))
RefreshProfile ==
  /\ mounted /\ ~isLoading /\ user # None /\ HasFree /\ soPc = "idle"
  /\ Spawn(RefreshHandler(user))
  /\ UNCHANGED <<authUser, soPc, ensuredTrue, mapVars>> /\ UNCHANGED dbVars
  /\ UNCHANGED reactVars

\* signOut, up to its await: setUser(null); setSession(null); setProfile(null)
SignOutStart ==
  /\ soPc = "idle" /\ mounted /\ ~isLoading /\ user # None
  /\ user' = None /\ session' = None /\ profile' = NullProfile
  /\ soPc' = "await"
  /\ UNCHANGED <<authUser, handlers, isLoading, mounted, ensuredTrue, mapVars>>
  /\ UNCHANGED dbVars

\* await supabase.auth.signOut() comes back; SIGNED_OUT reaches the listener
SignOutServer ==
  /\ soPc = "await"
  /\ \E out \in {"ok"} \cup Faults :
       /\ authUser' = IF out = "ok" THEN None ELSE authUser
       /\ IF out = "throw" \/ (out = "ok" /\ mounted)
          THEN user' = None /\ session' = None /\ profile' = NullProfile
          ELSE UNCHANGED <<user, session, profile>>
       /\ isLoading' = IF out = "ok" /\ mounted THEN FALSE ELSE isLoading
  /\ soPc' = "redirect"
  /\ UNCHANGED <<handlers, mounted, ensuredTrue, mapVars>> /\ UNCHANGED dbVars

\* window.location.href = '/auth': the page loads anew and the provider mounts
Reload ==
  /\ soPc = "redirect"
  /\ soPc' = "idle"
  /\ handlers' = SetToBag({InitHandler})
  /\ user' = None /\ session' = None /\ profile' = NullProfile
  /\ isLoading' = TRUE /\ mounted' = TRUE
  /\ UNCHANGED <<authUser, ensuredTrue, mapVars>> /\ UNCHANGED dbVars

\* effect cleanup: mounted = false; subscription.unsubscribe()
Unmount ==
  /\ mounted /\ soPc = "idle"
  /\ mounted' = FALSE
  /\ UNCHANGED <<authUser, handlers, user, session, profile, isLoading, soPc,
                 ensuredTrue, mapVars>>
  /\ UNCHANGED dbVars

(* ---------------------- AuthProvider of part_005 ----------------------- *)
\* signIn(email, password) up to its await: setIsLoading(true)
SignInHandler(u) ==
  [BlankHandler EXCEPT !.kind = "signIn", !.sess = u, !.pc = "signIn", !.rev = "part_005"]

\* the onAuthStateChange callback of part_005 for SIGNED_IN, past its
\* synchronous prefix
EventHandlerSignedIn(u) == [EventHandler(u) EXCEPT !.rev = "part_005"]

SignInStart(u) ==
  /\ mounted /\ soPc = "idle" /\ HasFree
  /\ \A h \in Active : h.kind # "signIn"
  /\ isLoading' = TRUE
  /\ Spawn(SignInHandler(u))
  /\ UNCHANGED <<user, session, profile, mounted>>
  /\ UNCHANGED <<authUser, soPc, ensuredTrue, mapVars>> /\ UNCHANGED dbVars

\* signInWithPassword comes back.  With a user the provider emits SIGNED_IN and
\* the callback starts; with an error value signIn returns {data, error} and
\* leaves isLoading to the callback; its catch block clears isLoading.
SignInAnswer(h) ==
  /\ h.kind = "signIn" /\ h.pc = "signIn" /\ mounted
  /\ \E out \in LoginOutcomes(h.sess) :
       /\ authUser' = IF out = "ok" THEN h.sess ELSE authUser
       /\ IF out = "ok"
          THEN /\ session' = h.sess /\ user' = h.sess
               /\ Swap(h, EventHandlerSignedIn(h.sess))
               /\ UNCHANGED isLoading
          ELSE /\ Drop(h)
               /\ isLoading' = IF out = "throw" THEN FALSE ELSE isLoading
               /\ UNCHANGED <<user, session>>
  /\ UNCHANGED <<profile, mounted>>
  /\ UNCHANGED <<soPc, ensuredTrue, mapVars>> /\ UNCHANGED dbVars

(* --------------------------- ProtectedRoute ---------------------------- *)
RequiredRoles == {"admin", "user", "all"}

\* what ProtectedRoute returns for the context values it reads
\* - the profile is not waited for
RouteRenderNoProfileWait(u, p, loading, requiredRole) ==
  IF loading THEN "loading"
  ELSE IF u = None THEN "toAuth"
  ELSE IF requiredRole = "admin" /\ p.role # "admin" THEN "toDriver"
  ELSE IF requiredRole = "user" /\ p.role = "admin" THEN "toAdmin"
  ELSE "children"
\* - admins are not turned away from the user routes
RouteRenderAdminOnUserRoute(u, p, loading, requiredRole) ==
  IF loading THEN "loading"
  ELSE IF u = None THEN "toAuth"
  ELSE IF p = NullProfile THEN "loadingProfile"
  ELSE IF requiredRole = "admin" /\ p.role # "admin" THEN "toDriver"
  ELSE "children"
RouteRender(u, p, loading, requiredRole) ==
  IF loading THEN "loading"
  ELSE IF u = None THEN "toAuth"
  ELSE IF p = NullProfile THEN "loadingProfile"
  ELSE IF requiredRole = "admin" /\ p.role # "admin" THEN "toDriver"
  ELSE IF requiredRole = "user" /\ p.role = "admin" THEN "toAdmin"
  ELSE "children"

\* the navigate() call of its effect, "none" if it returns without one
RouteEffect(u, p, loading, requiredRole) ==
  IF loading THEN "none"
  ELSE IF u = None THEN "toAuth"
  ELSE IF p = NullProfile THEN "none"
  ELSE IF requiredRole = "admin" /\ p.role # "admin" THEN "toDriver"
  ELSE IF requiredRole = "user" /\ p.role = "admin" THEN "toAdmin"
  ELSE "none"

\* a ProtectedRoute under the provider, rendered with the current context
RouteView(requiredRole) == RouteRender(user, profile, isLoading, requiredRole)
RouteNavigate(requiredRole) == RouteEffect(user, profile, isLoading, requiredRole)

(* ----------------------------- TrackingMap ----------------------------- *)
\* what TrackingMap returns for the context values it reads: { isAdmin, user }
TrackingMapRender(u, admin) == IF ~admin THEN "denied" ELSE "page"

\* the navigate() call of its effect, "none" if it makes none
TrackingMapEffect(u, admin) ==
  IF u = None THEN "toAuth"
  ELSE IF ~admin THEN "toHome"
  ELSE "none"

\* a TrackingMap under the provider, rendered with the current context
TrackingMapView == TrackingMapRender(user, isAdmin)
TrackingMapNavigate == TrackingMapEffect(user, isAdmin)

(* --------------------------- specifications ---------------------------- *)
\* The provider with its handlers, the identity provider and the store,
\* following the sessions of one identity.
SessionIds == {1}

\* the identity that is new to the store
NewId == 2

Next ==
  \/ \E u \in SessionIds : SignUp(u)
  \/ \E u \in SessionIds : TriggerRun(u)
  \/ \E u \in SessionIds : SignIn(u)
  \/ AuthEvent
  \/ \E h \in Active : InitResume(h)
  \/ \E h \in Active : EnsureGetUser(h)
  \/ \E h \in Active : EnsureSelect(h)
  \/ \E h \in Active : EnsureRpc(h)
  \/ \E h \in Active : EnsureInsert(h)
  \/ \E h \in Active : EnsureFinal(h)
  \/ \E h \in Active : HandlerAfterEnsure(h)
  \/ \E h \in Active : FetchExec(h)
  \/ \E h \in Active : FetchResume(h)
  \/ \E h \in Active : FetchAfterEnsure(h)
  \/ RefreshProfile
  \/ SignOutStart
  \/ SignOutServer
  \/ Reload
  \/ Unmount

Spec == Init /\ [][Next]_vars

\* The continuation of a handler whose awaited call has come back is run by
\* the event loop; events, clicks and unmounting are not bound to happen.
HandlerStep ==
  \E h \in Active :
    \/ InitResume(h) \/ EnsureGetUser(h) \/ EnsureSelect(h) \/ EnsureRpc(h)
    \/ EnsureInsert(h) \/ EnsureFinal(h) \/ HandlerAfterEnsure(h)
    \/ FetchExec(h) \/ FetchResume(h) \/ FetchAfterEnsure(h)

SpecLive == Init /\ [][Next]_vars /\ WF_vars(HandlerStep)

\* ensureUserInProfiles called by a utility function, no provider mounted:
\* one caller at a time against the trigger and a changing session.
InitBoot ==
  /\ InitStore
  /\ handlers = EmptyBag
  /\ user = None /\ session = None /\ profile = NullProfile
  /\ isLoading = TRUE /\ mounted = FALSE
  /\ soPc = "idle"
  /\ NoMap

NextBoot ==
  \/ \E u \in Ids : SignUp(u)
  \/ \E u \in Ids : TriggerRun(u)
  \/ \E u \in Ids : SignIn(u)
  \/ LogoutUser
  \/ CallEnsure
  \/ \E h \in Active : EnsureGetUser(h)
  \/ \E h \in Active : EnsureSelect(h)
  \/ \E h \in Active : EnsureRpc(h)
  \/ \E h \in Active : EnsureInsert(h)
  \/ \E h \in Active : EnsureFinal(h)
  \/ \E h \in Active : CallReturn(h)

SpecBoot == InitBoot /\ [][NextBoot]_vars

\* The utility functions with createAdminUser among them: one identity
\* that signs up and is bootstrapped, one that createAdminUser creates.
NextAdmin ==
  \/ \E u \in SessionIds : SignUp(u)
  \/ \E u \in Ids : TriggerRun(u)
  \/ \E u \in Ids : SignIn(u)
  \/ LogoutUser
  \/ CallEnsure
  \/ \E h \in Active : EnsureGetUser(h)
  \/ \E h \in Active : EnsureSelect(h)
  \/ \E h \in Active : EnsureRpc(h)
  \/ \E h \in Active : EnsureInsert(h)
  \/ \E h \in Active : EnsureFinal(h)
  \/ \E h \in Active : CallReturn(h)
  \/ CreateAdminStart(NewId)
  \/ \E h \in Active : CreateAdminRpc(h)
  \/ \E h \in Active : CreateAdminUpdate(h)
  \/ \E h \in Active : CreateAdminDone(h)

SpecAdmin == InitBoot /\ [][NextAdmin]_vars

\* The part_001 revision of ensureUserInProfiles called by a utility
\* function, against the trigger and a changing session.
NextInsertSelect ==
  \/ \E u \in Ids : SignUp(u)
  \/ \E u \in Ids : TriggerRun(u)
  \/ \E u \in Ids : SignIn(u)
  \/ LogoutUser
  \/ CallEnsureInsertSelect
  \/ \E h \in Active : EnsureGetUser(h)
  \/ \E h \in Active : EnsureSelect(h)
  \/ \E h \in Active : EnsureRpc(h)
  \/ \E h \in Active : EnsureInsert(h)
  \/ \E h \in Active : EnsureFinal(h)
  \/ \E h \in Active : CallReturn(h)

SpecInsertSelect == InitBoot /\ [][NextInsertSelect]_vars

\* The provider of part_005, mounted and settled with nobody signed in, and
\* its signIn.  A backend call that was made comes back and the continuation
\* that waits for it runs; nobody is bound to call signIn.
InitSignIn ==
  /\ InitStore /\ authUser = None
  /\ handlers = EmptyBag
  /\ user = None /\ session = None /\ profile = NullProfile
  /\ isLoading = FALSE /\ mounted = TRUE
  /\ soPc = "idle"
  /\ NoMap

SignInStep == \E h \in Active : SignInAnswer(h)

NextSignIn ==
  \/ \E u \in Ids : SignInStart(u)
  \/ \E h \in Active : SignInAnswer(h)
  \/ \E h \in Active : EnsureGetUser(h)
  \/ \E h \in Active : EnsureSelect(h)
  \/ \E h \in Active : EnsureRpc(h)
  \/ \E h \in Active : EnsureInsert(h)
  \/ \E h \in Active : EnsureFinal(h)
  \/ \E h \in Active : HandlerAfterEnsure(h)
  \/ \E h \in Active : FetchExec(h)
  \/ \E h \in Active : FetchResume(h)
  \/ \E h \in Active : FetchAfterEnsure(h)

SpecSignIn ==
  InitSignIn /\ [][NextSignIn]_vars /\ WF_vars(HandlerStep) /\ WF_vars(SignInStep)

\* loginUser against the identity provider, the trigger and the store.
NextLogin ==
  \/ \E u \in Ids : SignUp(u)
  \/ \E u \in Ids : TriggerRun(u)
  \/ LogoutUser
  \/ \E u \in Ids : LoginStart(u)
  \/ \E h \in Active : LoginAnswer(h)
  \/ \E h \in Active : EnsureGetUser(h)
  \/ \E h \in Active : EnsureSelect(h)
  \/ \E h \in Active : EnsureRpc(h)
  \/ \E h \in Active : EnsureInsert(h)
  \/ \E h \in Active : EnsureFinal(h)
  \/ \E h \in Active : LoginReturn(h)
  \/ \E h \in Active : LoginDone(h)

SpecLogin == InitBoot /\ [][NextLogin]_vars

\* registerUser for a new identity.  The trigger runs with the sign-up and
\* the function's own awaits come back; nothing else is bound to happen.
RegisterStep ==
  \E h \in Active :
    /\ h.kind = "register"
    /\ \/ EnsureGetUser(h) \/ EnsureSelect(h) \/ EnsureRpc(h)
       \/ EnsureInsert(h) \/ EnsureFinal(h) \/ RegisterReturn(h)

NextReg ==
  \/ RegisterUser(NewId)
  \/ TriggerRun(NewId)
  \/ \E u \in Ids : SignIn(u)
  \/ LogoutUser
  \/ \E h \in Active : EnsureGetUser(h)
  \/ \E h \in Active : EnsureSelect(h)
  \/ \E h \in Active : EnsureRpc(h)
  \/ \E h \in Active : EnsureInsert(h)
  \/ \E h \in Active : EnsureFinal(h)
  \/ \E h \in Active : RegisterReturn(h)

SpecReg ==
  InitBoot /\ [][NextReg]_vars /\ WF_vars(TriggerRun(NewId)) /\ WF_vars(RegisterStep)

\* ensureUserInProfiles for a freshly created identity whose metadata and
\* email are any combination, racing the identity's sign-up trigger.
InitName ==
  /\ \E m \in Metas : meta = [DefaultMeta EXCEPT ![NewId] = m]
  /\ registered = {NewId}
  /\ trig = [u \in Ids |-> IF u = NewId THEN "pending" ELSE "none"]
  /\ profiles = [u \in Ids |-> <<>>]
  /\ authUser = NewId
  /\ ensuredTrue = {}
  /\ handlers = EmptyBag
  /\ user = None /\ session = None /\ profile = NullProfile
  /\ isLoading = TRUE /\ mounted = FALSE
  /\ soPc = "idle"
  /\ NoMap

NextName ==
  \/ TriggerRun(NewId)
  \/ CallEnsure
  \/ \E h \in Active : EnsureGetUser(h)
  \/ \E h \in Active : EnsureSelect(h)
  \/ \E h \in Active : EnsureRpc(h)
  \/ \E h \in Active : EnsureInsert(h)
  \/ \E h \in Active : EnsureFinal(h)
  \/ \E h \in Active : CallReturn(h)

SpecName == InitName /\ [][NextName]_vars

\* The provider on a device two registered identities sign in on, one after
\* the other without a sign-out in between: every identity has its row.
InitSwitch ==
  /\ meta = DefaultMeta /\ registered = Ids
  /\ profiles = [u \in Ids |-> <<Row(u, TriggerName(MetaOf(u)), "user", 0)>>]
  /\ trig = [u \in Ids |-> "done"]
  /\ authUser \in {None} \cup Ids
  /\ ensuredTrue = {}
  /\ handlers = SetToBag({InitHandler})
  /\ user = None /\ session = None /\ profile = NullProfile
  /\ isLoading = TRUE /\ mounted = TRUE
  /\ soPc = "idle"
  /\ NoMap

NextSwitch ==
  \/ \E u \in Ids : SignIn(u)
  \/ AuthEvent
  \/ \E h \in Active : InitResume(h)
  \/ \E h \in Active : EnsureGetUser(h)
  \/ \E h \in Active : EnsureSelect(h)
  \/ \E h \in Active : EnsureRpc(h)
  \/ \E h \in Active : EnsureInsert(h)
  \/ \E h \in Active : EnsureFinal(h)
  \/ \E h \in Active : HandlerAfterEnsure(h)
  \/ \E h \in Active : FetchExec(h)
  \/ \E h \in Active : FetchResume(h)
  \/ \E h \in Active : FetchAfterEnsure(h)

SpecSwitch == InitSwitch /\ [][NextSwitch]_vars

(* ----------------------------- ShipmentMap ---------------------------- *)
\* useEffect(() => {...}, []): the initial fetch is sent, the channel subscribed
MapEffect ==
  /\ channelState = "none"
  /\ channelState' = "joined"
  /\ mapFetch' = [pc |-> "sent", data |-> <<>>]
  /\ UNCHANGED <<shipmentsTable, channel, shipments, mapLoading>>
  /\ UNCHANGED authVars

\* event: '*' on public.shipments: a change of the table reaches a joined channel
Publish(payload) ==
  /\ channelState = "joined" => Len(channel) < MaxEvents
  /\ channel' = IF channelState = "joined" THEN Append(channel, payload) ELSE channel

\* some client inserts the row id at loc
InsertShipment(id, loc) ==
  /\ shipmentsTable[id] = NoShipment
  /\ shipmentsTable' = [shipmentsTable EXCEPT ![id] = ShipmentRow(id, loc)]
  /\ Publish(Payload("INSERT", ShipmentRow(id, loc), None))
  /\ UNCHANGED <<channelState, mapFetch, shipments, mapLoading>>
  /\ UNCHANGED authVars

\* some client moves the row id to loc
UpdateShipment(id, loc) ==
  /\ shipmentsTable[id] # NoShipment
  /\ shipmentsTable[id] # ShipmentRow(id, loc)
  /\ shipmentsTable' = [shipmentsTable EXCEPT ![id] = ShipmentRow(id, loc)]
  /\ Publish(Payload("UPDATE", ShipmentRow(id, loc), id))
  /\ UNCHANGED <<channelState, mapFetch, shipments, mapLoading>>
  /\ UNCHANGED authVars

\* some client deletes the row id
DeleteShipment(id) ==
  /\ shipmentsTable[id] # NoShipment
  /\ shipmentsTable' = [shipmentsTable EXCEPT ![id] = NoShipment]
  /\ Publish(Payload("DELETE", NoShipment, id))
  /\ UNCHANGED <<channelState, mapFetch, shipments, mapLoading>>
  /\ UNCHANGED authVars

\* (payload) => {...}: the callback runs for the oldest event
ChannelDeliver ==
  /\ channelState = "joined" /\ channel # <<>>
  /\ shipments' = OnPostgresChanges(shipments, Head(channel))
  /\ channel' = Tail(channel)
  /\ UNCHANGED <<shipmentsTable, channelState, mapFetch, mapLoading>>
  /\ UNCHANGED authVars

\* the store answers fetchShipmentsWithLocation's query
MapFetchAnswer ==
  /\ mapFetch.pc = "sent"
  /\ \E out \in {"ok"} \cup Faults :
       mapFetch' = [pc |-> out,
                    data |-> IF out = "ok"
                             THEN LocatedRows(shipmentsTable, NumShipments)
                             ELSE <<>>]
  /\ UNCHANGED <<shipmentsTable, channel, channelState, shipments, mapLoading>>
  /\ UNCHANGED authVars

\* fetchShipmentsWithLocation resumes: on an error it returns after the toast;
\* a component that is gone keeps no state
MapFetchResume ==
  /\ mapFetch.pc \in {"ok"} \cup Faults
  /\ mapFetch' = [pc |-> "done", data |-> <<>>]
  /\ shipments' = IF mapFetch.pc = "ok" /\ channelState = "joined"
                  THEN ShipmentsWithLocation(mapFetch.data) ELSE shipments
  /\ mapLoading' = IF mapFetch.pc # "err" /\ channelState = "joined"
                   THEN FALSE ELSE mapLoading
  /\ UNCHANGED <<shipmentsTable, channel, channelState>>
  /\ UNCHANGED authVars

\* the effect's cleanup: supabase.removeChannel(channel)
MapCleanup ==
  /\ channelState = "joined"
  /\ channelState' = "removed"
  /\ channel' = <<>>
  /\ UNCHANGED <<shipmentsTable, mapFetch, shipments, mapLoading>>
  /\ UNCHANGED authVars

\* ShipmentMap on a page, with the clients that write the shipments table.
InitMap ==
  /\ meta = DefaultMeta /\ registered = {}
  /\ profiles = [u \in Ids |-> <<>>]
  /\ trig = [u \in Ids |-> "none"]
  /\ authUser = None /\ ensuredTrue = {}
  /\ handlers = EmptyBag
  /\ user = None /\ session = None /\ profile = NullProfile
  /\ isLoading = TRUE /\ mounted = FALSE
  /\ soPc = "idle"
  /\ NoMap

NextMap ==
  \/ MapEffect
  \/ \E id \in ShipmentIds : \E loc \in Locations : InsertShipment(id, loc)
  \/ \E id \in ShipmentIds : \E loc \in Locations : UpdateShipment(id, loc)
  \/ \E id \in ShipmentIds : DeleteShipment(id)
  \/ ChannelDeliver
  \/ MapFetchAnswer
  \/ MapFetchResume
  \/ MapCleanup

SpecMap == InitMap /\ [][NextMap]_vars

TypeOK ==
  /\ authUser \in {None} \cup Ids
  /\ user \in {None} \cup Ids
  /\ isLoading \in BOOLEAN /\ mounted \in BOOLEAN
  /\ \A u \in Ids : \A i \in DOMAIN profiles[u] :
       profiles[u][i].id = u /\ profiles[u][i].created_at \in 0..MaxNow

(* ------------------------------ claims --------------------------------- *)
Calls == {h \in Active : h.kind = "call"}

Did(f, step) == \E i \in DOMAIN f.tr : f.tr[i][1] = step
OutOf(f, step) == f.tr[CHOOSE i \in DOMAIN f.tr : f.tr[i][1] = step][2]
Last(f) == f.tr[Len(f.tr)]

\* the lookup `step` of the call was answered by the store, under a session
\* that may read the caller's row
Answered(f, step) == OutOf(f, step) \in {"found", "none"}

\* C1: race safety.  When the direct-insert fallback of a call and the sign-up
\* trigger have both run their INSERT for the same id (the fallback's INSERT
\* reached the primary-key check: it created the row or hit the conflict), one
\* row with that id exists and the call returns true; the final re-check is
\* taken to be answered by the store.
C1_RaceSafety ==
  \A h \in Calls :
    ( /\ h.f.pc = "done"
      /\ Did(h.f, "insert") /\ OutOf(h.f, "insert") \in {"created", "conflict"}
      /\ trig[h.f.uid] = "done"
      /\ Did(h.f, "final") => Answered(h.f, "final") )
    => (Count(h.f.uid) = 1 /\ h.f.res)

\* the fallback lost the race: no row at the existence check, conflict at the
\* insert, row found by the re-check
C1_Witness ==
  \E h \in Calls :
    /\ h.f.pc = "done" /\ h.f.res /\ trig[h.f.uid] = "done"
    /\ Did(h.f, "final") /\ OutOf(h.f, "select") = "none"
    /\ OutOf(h.f, "insert") = "conflict" /\ OutOf(h.f, "final") = "found"
    /\ Count(h.f.uid) = 1

\* C3: a call that returned true leaves a row with the caller's id in the table.
C3_TrueMeansRow ==
  \A h \in Calls : (h.f.pc = "done" /\ h.f.res) => Count(h.f.uid) >= 1

C3_Witness ==
  \E h \in Calls : h.f.pc = "done" /\ h.f.res /\ Last(h.f)[1] = "insert"
                   /\ Count(h.f.uid) = 1

\* C4: idempotence.  A call started after an earlier call for the same identity
\* returned true finds exactly one row for it, leaves exactly one, and returns
\* true when its existence check is answered.
C4_Idempotent ==
  \A h \in Calls :
    h.f.after =>
      /\ Count(h.f.uid) = 1
      /\ (h.f.pc = "done" /\ Did(h.f, "select") /\ Answered(h.f, "select")) => h.f.res

C4_Witness ==
  \E h \in Calls : h.f.after /\ h.f.pc = "done" /\ h.f.res
                   /\ OutOf(h.f, "select") = "found" /\ Count(h.f.uid) = 1

StepOrder == <<"getUser", "select", "rpc", "insert", "final">>

Succeeded(e) ==
  \/ e[1] = "select" /\ e[2] = "found"
  \/ e[1] = "rpc" /\ e[2] = "ok"
  \/ e[1] = "insert" /\ e[2] = "created"

\* the calls made so far are the chain's steps in order, each after the
\* previous one did not succeed
InOrder(f) ==
  /\ Len(f.tr) <= Len(StepOrder)
  /\ \A i \in DOMAIN f.tr : f.tr[i][1] = StepOrder[i]
  /\ \A i \in DOMAIN f.tr : i > 1 => ~Succeeded(f.tr[i - 1])

SignedIn(f) == Len(f.tr) >= 1 /\ f.tr[1][2] = "user"

\* C5 as stated: the steps run in order, and for a signed-in user false is
\* returned only after all four strategies were attempted.
C5_Original ==
  \A h \in Calls :
    /\ InOrder(h.f)
    /\ (h.f.pc = "done" /\ SignedIn(h.f) /\ ~h.f.res) => Len(h.f.tr) = Len(StepOrder)

\* C5 amended: the steps run in order, each only after the previous one did
\* not succeed; for a signed-in user false is returned only after the final
\* re-check was attempted and failed, or at once when an awaited call threw.
C5_OrderedChain ==
  \A h \in Calls :
    /\ InOrder(h.f)
    /\ (h.f.pc = "done" /\ SignedIn(h.f) /\ ~h.f.res) =>
         \/ Len(h.f.tr) = Len(StepOrder) /\ Last(h.f)[2] # "found"
         \/ Last(h.f)[2] = "throw"

C5_Witness ==
  \E h \in Calls : /\ h.f.pc = "done" /\ SignedIn(h.f) /\ ~h.f.res
                   /\ Len(h.f.tr) = Len(StepOrder) /\ Last(h.f)[2] = "none"

\* C6: no-op path.  A call whose existence check found the profile has
\* returned true having made no call after the check: no create_user_profile,
\* no insert.
C6_NoOpPath ==
  \A h \in Calls :
    (Did(h.f, "select") /\ OutOf(h.f, "select") = "found") =>
      /\ h.f.pc = "done" /\ h.f.res
      /\ Len(h.f.tr) = 2

C6_Witness ==
  \E h \in Calls : Did(h.f, "select") /\ OutOf(h.f, "select") = "found"
                   /\ h.f.pc = "done" /\ h.f.res

\* C7: with no current identity the call has returned false after getUser
\* alone: no lookup, no create_user_profile, no insert.
C7_NoIdentity ==
  \A h \in Calls :
    (Len(h.f.tr) >= 1 /\ h.f.tr[1][2] = "nouser") =>
      /\ h.f.pc = "done" /\ ~h.f.res
      /\ Len(h.f.tr) = 1

C7_Witness ==
  \E h \in Calls : Len(h.f.tr) = 1 /\ h.f.tr[1][2] = "nouser"
                   /\ h.f.pc = "done" /\ ~h.f.res

\* C8: no error escapes.  Whatever call failed, as an error value or by
\* throwing, the invocation raises nothing; after a throw it has returned false.
C8_NeverRaises ==
  \A h \in Calls :
    /\ ~h.f.raised
    /\ h.f.res \in BOOLEAN
    /\ (Len(h.f.tr) >= 1 /\ Last(h.f)[2] = "throw") => (h.f.pc = "done" /\ ~h.f.res)

C8_Witness ==
  \E h \in Calls : /\ Len(h.f.tr) >= 3 /\ Last(h.f)[2] = "throw"
                   /\ h.f.pc = "done" /\ ~h.f.raised
                   /\ \E i \in DOMAIN h.f.tr : h.f.tr[i][2] = "err"

(* ----------------------- claims on the provider ------------------------ *)
\* handlers that run the bootstrap and fetch of a session
Bootstrapping(u) == {h \in Active : h.kind = "auth" /\ h.pc # "getSession" /\ h.sess = u}

\* the provider took up u's session and every handler started for it has finished
SettledFor(u) == user = u /\ u # None /\ Bootstrapping(u) = {}

\* C2 as stated: once the sign-in handling of an identity has settled, exactly
\* one profile row with its id exists.
C2_Original == \A u \in Ids : SettledFor(u) => Count(u) = 1

\* C2 amended: no identity ever has more than one profile row, whichever of
\* the trigger, create_user_profile and the direct insert ran and in whatever
\* order; an identity whose sign-in handling has settled with a profile
\* resolved has exactly one.  (One for which every strategy failed may have
\* none.)
C2_AtMostOne ==
  \A u \in Ids :
    /\ Count(u) <= 1
    /\ (SettledFor(u) /\ profile.id = u) => Count(u) = 1

C2_Witness ==
  /\ SettledFor(1) /\ profile.id = 1 /\ Count(1) = 1
  /\ profiles[1][1].created_at > 0

InFlight == {h \in Active : h.kind = "auth" /\ h.pc # "getSession"}

\* C9: handlers are serial, at most one bootstrap-and-fetch is in flight at a time.
C9_Serialized ==
  /\ Cardinality(InFlight) <= 1
  /\ \A h \in InFlight : CopiesIn(h, handlers) = 1

\* C10: from signOut's clearing of the local state until the page is left,
\* user, session and profile are null and isAdmin is false.
C10_SignedOutStaysCleared ==
  soPc \in {"await", "redirect"} =>
    (user = None /\ session = None /\ profile = NullProfile /\ ~isAdmin)

\* the provider is mounted, has taken up a session, and every handler it
\* started has completed its bootstrap and fetch
Resolved == mounted /\ user # None /\ soPc = "idle" /\ InFlight = {}

\* C11: once the bootstrap and the fetch of the handlers of a found session
\* have completed, whether they succeeded or failed, isLoading is false and
\* profile is null or the row a fetch read for the user: the stored row of the
\* user's id, as it is or as it was before a later upsert.
C11_ReachesResolved ==
  Resolved =>
    /\ ~isLoading
    /\ \/ profile = NullProfile
       \/ /\ profile.id = user /\ Count(user) = 1
          /\ profile.created_at = profiles[user][1].created_at
          /\ profile.role \in {"user", "admin"}

\* resolved after a bootstrap and a fetch that failed: no row, profile null
C11_Witness == Resolved /\ ~isLoading /\ profile = NullProfile /\ Count(user) = 0

\* the states in which the role is not resolved
RoleUnresolved == isLoading \/ (user # None /\ profile = NullProfile)

\* C12: while isLoading is true or a signed-in user's profile is null, a
\* ProtectedRoute of any required role shows a loading display: it renders
\* neither its children nor a redirect to /dashboard-supir or /admin, and
\* its effect issues no such navigation.
C12_NoRoleDecisionUnresolved ==
  \A r \in RequiredRoles :
    RoleUnresolved =>
      /\ RouteView(r) \in {"loading", "loadingProfile"}
      /\ RouteNavigate(r) = "none"

\* a settled sign-in without a profile, in front of an admin-only route
C12_Witness ==
  /\ ~isLoading /\ user # None /\ profile = NullProfile
  /\ RouteView("admin") = "loadingProfile"

\* C13: a protected route in front of a settled sign-in with a null profile
\* does not stay on its loading display: it comes to show something else
\* (the 'unable to load profile' state with its retry), unless the page is
\* left first.
C13_LeavesLoading ==
  (Resolved /\ ~isLoading /\ profile = NullProfile)
    ~> (~mounted \/ RouteView("all") \notin {"loading", "loadingProfile"})

Available(x) == x # Absent /\ x # ""

\* the first available of metadata name, metadata full_name, the part of the
\* email before '@'; the literal 'User' when there is none
FirstAvailable(m) ==
  LET c == SelectSeq(<<m.name, m.full_name, m.local>>, Available)
  IN IF c = <<>> THEN "User" ELSE Head(c)

\* the call ended by writing the profile itself
Wrote(f) ==
  /\ f.pc = "done" /\ f.tr # <<>>
  /\ Last(f) \in {<<"rpc", "ok">>, <<"insert", "created">>}

\* C14: the name a call of ensureUserInProfiles wrote for the profile is the
\* first available of metadata name, metadata full_name, email local part,
\* 'User', for every combination of these being absent, empty or set.
C14_NamePriority ==
  \A h \in Calls :
    Wrote(h.f) =>
      /\ Count(h.f.uid) = 1
      /\ profiles[h.f.uid][1].name = FirstAvailable(meta[h.f.uid])

\* a new row made by the direct insert for an identity with full_name only
C14_Witness ==
  \E h \in Calls :
    /\ Wrote(h.f) /\ Last(h.f)[1] = "insert"
    /\ meta[h.f.uid].name = Absent /\ meta[h.f.uid].full_name = "Bob Lee"
    /\ profiles[h.f.uid][1].name = "Bob Lee"
    /\ profiles[h.f.uid][1].created_at > 0

\* the step is createAdminUser's create_user_profile call for u
AdminRpcStep(u) ==
  \E h \in Active : /\ h.kind = "admin" /\ h.pc = "rpc" /\ h.sess = u
                    /\ CopiesIn(h, handlers') < CopiesIn(h, handlers)

\* C15: a step that creates the row of an identity creates it with role
\* 'user', unless the step is the create_user_profile call of createAdminUser.
C15_NewRowsAreUsers ==
  [][\A u \in Ids :
       (Count(u) = 0 /\ Len(profiles'[u]) >= 1) =>
         (profiles'[u][1].role = "user" \/ AdminRpcStep(u))]_vars

\* a row made by the bootstrap's direct insert, while a createAdminUser for
\* another identity is under way
C15_Witness ==
  /\ \E h \in Calls : Wrote(h.f) /\ Last(h.f)[1] = "insert"
                      /\ profiles[h.f.uid][1].role = "user"
  /\ \E u \in Ids : Count(u) = 1 /\ profiles[u][1].role = "admin"
                    /\ profiles[u][1].created_at > 0

Registrations == {h \in Active : h.kind = "register"}

\* the profile registerUser's caller expects for the identity
Registered(u) ==
  /\ Count(u) = 1
  /\ profiles[u][1].name = RegName /\ profiles[u][1].role = "user"
  /\ MaybeSingle(profiles, u, u).out = "found"

\* C16 as stated: after registerUser has created the identity, its profile
\* {id, name, role 'user'} eventually exists and can be read.
C16_Original == (Registrations # {}) ~> Registered(NewId)

\* C16 amended: after registerUser has created the identity, every profile
\* row with its id is {id, the given name, 'user'} and readable by it.  The
\* row exists once the trigger's insert succeeded or the function's
\* bootstrap, run under the new identity's session, returned true; when
\* registerUser has returned and the trigger has run without there being a
\* row, the bootstrap had returned false or had run for another session.
C16_RegisteredProfile ==
  \A h \in Registrations :
    /\ Count(h.sess) >= 1 => Registered(h.sess)
    /\ (h.pc = "returned" /\ h.f.res /\ h.f.uid = h.sess) => Registered(h.sess)
    /\ (h.pc = "returned" /\ trig[h.sess] = "done" /\ Count(h.sess) = 0) =>
         (~h.f.res \/ h.f.uid # h.sess)

\* registerUser returned after its bootstrap made the row the trigger had not
C16_Witness ==
  \E h \in Registrations :
    /\ h.pc = "returned" /\ h.f.res /\ h.f.uid = h.sess /\ Registered(h.sess)
    /\ trig[h.sess] = "pending"

Logins == {h \in Active : h.kind = "login"}

\* C17: a loginUser whose credentials the identity provider rejected has
\* returned success = false with a message, without having called
\* ensureUserInProfiles; the step in which the rejection arrives changes
\* neither the profile store nor the session.
C17_RejectedLoginWritesNothing ==
  /\ [](\A h \in Logins :
          h.resp \in LoginErrors =>
            /\ h.pc = "returned" /\ h.f = IdleFrame
            /\ ~LoginResult(h.resp).success /\ LoginResult(h.resp).message # "")
  /\ [][\A h \in Logins :
          (h.pc = "signIn" /\ \E g \in BagToSet(handlers') :
              g.kind = "login" /\ g.resp \in LoginErrors)
          => (profiles' = profiles /\ authUser' = authUser)]_vars

\* wrong password for a registered identity that has no profile yet
C17_Witness ==
  \E h \in Logins :
    /\ h.resp = "Invalid login credentials" /\ h.pc = "returned"
    /\ h.sess \in registered /\ Count(h.sess) = 0 /\ trig[h.sess] = "done"

\* the step completes a refreshProfile call
RefreshStep ==
  \E h \in Active : h.kind = "refresh" /\ handlers' = handlers (-) SetToBag({h})

\* C18: once the provider has unmounted, no step of an auth-event handler or
\* of the initial session check changes session, user, profile or isLoading,
\* whatever call of theirs comes back.  (refreshProfile is neither.)
C18_NoUpdateAfterUnmount ==
  [][(~mounted /\ ~mounted' /\ ~RefreshStep) =>
       UNCHANGED <<session, user, profile, isLoading>>]_vars

\* a handler ran to its end after the unmount: the provider still says
\* loading although no handler is left
C18_Witness ==
  /\ ~mounted /\ isLoading /\ user # None /\ InFlight = {}
  /\ \A h \in Active : h.kind # "auth"
  /\ Count(user) = 1

\* C19: no step changes the created_at of a row that exists: not the
\* create_user_profile upsert of the bootstrap or of createAdminUser, not the
\* trigger or the direct insert running into the row, not the role update.
C19_CreatedAtKept ==
  [][\A u \in Ids :
       (Count(u) >= 1) =>
         /\ Len(profiles'[u]) >= 1
         /\ profiles'[u][1].created_at = profiles[u][1].created_at]_vars

\* a bootstrap whose existence check failed has upserted the row that was
\* there from the start
C19_Witness ==
  \E h \in Calls :
    /\ h.f.pc = "done" /\ Did(h.f, "select") /\ OutOf(h.f, "select") = "err"
    /\ Last(h.f) = <<"rpc", "ok">>
    /\ Count(h.f.uid) = 1 /\ profiles[h.f.uid][1].created_at = 0


\* C20: for every insert, update and delete event delivered on the channel,
\* the displayed list reflects the changed record after the callback: a new
\* located shipment is in the list, a changed one is in it with its new
\* values and no other entry of its id, a deleted one is not in it.  A
\* record is located when the component takes its coordinates for a location.
Located(row) == Truthy(row.current_lat) /\ Truthy(row.current_lng)

Shows(list, s) == \E i \in DOMAIN list : list[i] = s

Reflects(list, payload) ==
  LET s == ShipmentWithLocation(payload.new)
  IN /\ payload.eventType = "INSERT" /\ Located(payload.new) => Shows(list, s)
     /\ payload.eventType = "UPDATE" /\ Located(payload.new) =>
          /\ Shows(list, s)
          /\ \A i \in DOMAIN list : list[i].id = s.id => list[i] = s
     /\ payload.eventType = "DELETE" =>
          \A i \in DOMAIN list : list[i].id # payload.old.id

Delivered ==
  /\ channelState = "joined" /\ channelState' = "joined"
  /\ channel # <<>> /\ channel' = Tail(channel)

C20_EventsReflected ==
  [][Delivered => Reflects(shipments', Head(channel))]_vars

\* the step is a write of the bootstrap call h: its create_user_profile call
\* or its direct insert comes back
EnsureWriteStep(h) ==
  /\ h.pc \in {"ensure", "fetchEnsure"} /\ h.f.pc \in {"rpc", "insert"}
  /\ CopiesIn(h, handlers') < CopiesIn(h, handlers)

\* C21: no write of an ensureUserInProfiles call changes the role of a row
\* that exists, whatever its existence check came back with and whatever
\* createAdminUser did in between.
C21_BootstrapKeepsRole ==
  [][\A h \in Active : \A u \in Ids :
       (EnsureWriteStep(h) /\ Count(u) >= 1) =>
         /\ Len(profiles'[u]) >= 1
         /\ profiles'[u][1].role = profiles[u][1].role]_vars

\* C22: in every state of the provider a profile that is not null is the
\* current user's: user is not null and profile.id = user.id.
C22_ProfileOfCurrentUser ==
  profile # NullProfile => (user # None /\ profile.id = user)

Admins == {h \in Active : h.kind = "admin"}

\* the step is the one in which createAdminUser for u gets its result
AdminReturnStep(u, res) ==
  /\ \E h \in Admins : h.sess = u /\ h.pc # "returned"
  /\ \E g \in BagToSet(handlers') :
       g.kind = "admin" /\ g.sess = u /\ g.pc = "returned" /\ g.resp = res

\* C23: when createAdminUser returns success, the row of the new user exists
\* with role 'admin', after a successful create_user_profile call and after
\* the fallback update alike.
C23_AdminSuccessMeansAdminRow ==
  [][\A u \in Ids :
       AdminReturnStep(u, "success") =>
         /\ Len(profiles'[u]) = 1
         /\ profiles'[u][1].role = "admin"]_vars

\* the step makes the role of u's row 'admin': the row is new or was not admin
BecomesAdmin(u) ==
  /\ \E i \in DOMAIN profiles'[u] : profiles'[u][i].role = "admin"
  /\ \A i \in DOMAIN profiles[u] : profiles[u][i].role # "admin"

\* C24: a step that makes a profile's role 'admin' is taken for a caller who
\* is an admin: no caller who is not an admin makes any role 'admin'.
C24_OnlyAdminsMakeAdmins ==
  [][\A u \in Ids : BecomesAdmin(u) => IsAdminId(profiles, authUser)]_vars

\* the direct insert of the call came back with an error
InsertFailed(f) == Did(f, "insert") /\ OutOf(f, "insert") \in {"denied", "conflict", "err"}

\* C25: in the part_001 revision, a call whose direct insert failed, whatever
\* the error code, has repeated the existence check once when it returns, and
\* has returned true if that check found the row.
C25_RecheckAfterAnyInsertError ==
  \A h \in Calls :
    (h.rev = "part_001" /\ h.f.pc = "done" /\ InsertFailed(h.f)) =>
      /\ Did(h.f, "final")
      /\ OutOf(h.f, "final") = "found" => h.f.res

\* C26: while the role of a signed-in user is not resolved, TrackingMap shows
\* no access-denied view and navigates nowhere.
C26_TrackingMapWaits ==
  (user # None /\ RoleUnresolved) =>
    (TrackingMapView # "denied" /\ TrackingMapNavigate = "none")

SignIns == {h \in Active : h.kind = "signIn"}

\* C27: in the part_005 provider, after every signIn call isLoading is
\* false again at some time, whatever signInWithPassword comes back with.
C27_SignInLoadingEnds == (SignIns # {}) ~> ~isLoading

\* the fetchUserProfile invocations in flight
Fetching == {h \in Active : h.pc \in {"fetchSel", "fetchResp", "fetchEnsure"}}

\* C28: an invocation of fetchUserProfile makes at most 3 profile lookups and
\* at most 3 ensureUserInProfiles calls, and it calls ensureUserInProfiles
\* only after a lookup that was answered with no row: a lookup error ends it.
C28_FetchBounded ==
  \A h \in Fetching :
    /\ h.lookups <= MaxRetry + 1
    /\ h.ensures <= MaxRetry + 1
    /\ h.ensures <= h.lookups
    /\ h.pc = "fetchEnsure" => h.resp = "none"

\* the last round: the third lookup found no row, the third bootstrap call
\* returned true, and there is no further retry
C28_Witness ==
  \E h \in Fetching :
    /\ h.pc = "fetchEnsure" /\ h.lookups = 3 /\ h.ensures = 3
    /\ h.f.pc = "done" /\ h.f.res

\* the role requirement of a route holds for the current profile
RoleAllowed(requiredRole) ==
  /\ requiredRole = "admin" => isAdmin
  /\ requiredRole = "user" => ~isAdmin

\* C29: ProtectedRoute renders its children exactly when isLoading is false,
\* user and profile are not null and the role requirement holds; in every
\* other state it shows a loading display or redirects.
C29_ChildrenOnlyWhenAllowed ==
  \A r \in RequiredRoles :
    IF ~isLoading /\ user # None /\ profile # NullProfile /\ RoleAllowed(r)
    THEN RouteView(r) = "children"
    ELSE RouteView(r) \in {"loading", "loadingProfile", "toAuth", "toDriver", "toAdmin"}

\* a resolved admin: let into the admin routes, sent away from the user routes
C29_Witness ==
  /\ ~isLoading /\ user # None /\ isAdmin
  /\ RouteView("admin") = "children" /\ RouteView("all") = "children"
  /\ RouteView("user") = "toAdmin"

\* the step is the run of the sign-up trigger for u
TriggerStep(u) == trig[u] = "pending" /\ trig'[u] # "pending"

====
